---- MODULE Spec2Model ----
(***************************************************************************)
(* Model of yaml_to_json.py: load_yaml_file, main(argv) and the script     *)
(* block that runs when the file is executed from the command line.        *)
(*                                                                         *)
(* A decoded YAML value is a record [t, v]: t is the Python type of the    *)
(* value and v its payload.  Python's None is the one value Null, whether  *)
(* it was decoded from a document or returned for a file without           *)
(* documents.  A list is [t |-> "seq"] over a sequence of values, a dict   *)
(* is [t |-> "map"] over a sequence of [k, val] items in insertion order.  *)
(***************************************************************************)
EXTENDS Integers, Sequences, FiniteSets, TLC

VARIABLES
    inputs,       \* args.inputs: the paths given on the command line
    output,       \* args.output: <<>> when -o is absent, <<path>> otherwise
    pretty,       \* args.pretty: <<>> for None, <<n>> for an indent width
    allow_empty,  \* args.allow_empty
    fs,           \* the input files: what each path holds
    data_json,    \* the file data.json of the working directory
    data,         \* the script block's data
    pc,           \* position in main / in the script block
    objs,         \* main's list objs
    out_obj,      \* main's out_obj
    json_text,    \* main's json_text
    stdout,       \* the texts written to sys.stdout, in order
    stderr,       \* the texts written to sys.stderr, in order
    outfile,      \* <<>> while the -o file is unwritten, else <<its text>>
    ret,          \* <<>> while running, <<code>> once main returned / exited
    exc           \* the exception that ended the run, "" when none

vars == <<inputs, output, pretty, allow_empty, fs, data_json, data, pc, objs,
          out_obj, json_text, stdout, stderr, outfile, ret, exc>>

\* ---------------------------------------------------------------- bounds
MaxInputs == 2
MaxDocs == 2

\* ---------------------------------------------------------------- values
Null == [t |-> "null", v |-> 0]
Int1 == [t |-> "int", v |-> 1]
Date1 == [t |-> "date", v |-> "2020-01-01"]
StrA == [t |-> "str", v |-> "a"]
List(s) == [t |-> "seq", v |-> s]
Dict(items) == [t |-> "map", v |-> items]

DateKeyed == Dict(<<[k |-> Date1, val |-> Int1]>>)

\* The documents a YAML file of the model may hold: null, a number, a date
\* (decoded by safe_load to datetime.date) and a mapping with a date key.
Docs == {Null, Int1, Date1, DateKeyed}

RECURSIVE SeqsUpTo(_, _)
SeqsUpTo(S, n) ==
    IF n = 0 THEN {<<>>}
    ELSE LET shorter == SeqsUpTo(S, n - 1)
         IN  shorter \cup {Append(s, x) : s \in {q \in shorter : Len(q) = n - 1}, x \in S}

\* What a path holds: nothing (the path does not exist), text that is not
\* YAML, or a stream of documents.
Missing == [exists |-> FALSE, wellformed |-> FALSE, docs |-> <<>>]
Malformed == [exists |-> TRUE, wellformed |-> FALSE, docs |-> <<>>]
YamlFile(ds) == [exists |-> TRUE, wellformed |-> TRUE, docs |-> ds]
Contents == {Missing, Malformed} \cup {YamlFile(ds) : ds \in SeqsUpTo(Docs, MaxDocs)}

Paths == {"a.yaml", "b.yaml"}

Range(s) == {s[i] : i \in 1..Len(s)}

\* data.json: absent, text that is not JSON, or the JSON text of a value.
NoDataJson == [exists |-> FALSE, valid |-> FALSE, value |-> Null]
BadDataJson == [exists |-> TRUE, valid |-> FALSE, value |-> Null]
DataJsonOf(val) == [exists |-> TRUE, valid |-> TRUE, value |-> val]
DataJsonContents ==
    {NoDataJson, BadDataJson} \cup {DataJsonOf(val) : val \in {Null, Int1, List(<<Int1, Null>>)}}

\* ---------------------------------------------------------------- load_yaml_file
\* A load_yaml_file that returns the list of documents whenever there is one.
load_yaml_file_wrapped(docs) ==
    IF Len(docs) = 0 THEN Null ELSE List(docs)

load_yaml_file(docs) ==
    IF Len(docs) = 0 THEN Null
    ELSE IF Len(docs) = 1 THEN docs[1]
    ELSE List(docs)

\* ---------------------------------------------------------------- json.dumps
RECURSIVE Spaces(_)
Spaces(n) == IF n <= 0 THEN "" ELSE " " \o Spaces(n - 1)

RECURSIVE Join(_, _)
Join(strs, sep) ==
    IF Len(strs) = 0 THEN ""
    ELSE IF Len(strs) = 1 THEN strs[1]
    ELSE strs[1] \o sep \o Join(Tail(strs), sep)

\* The types json accepts as a dict key (here str, int, None).
KeyTypes == {"str", "int", "null"}

KeyText(k) ==
    IF k.t = "str" THEN k.v
    ELSE IF k.t = "int" THEN ToString(k.v)
    ELSE "null"

\* Whether json.dumps raises TypeError on o: a value that is not natively
\* representable raises unless default= is given; a dict key of another
\* type than KeyTypes raises with or without default=.
RECURSIVE DumpsRaises(_, _)
DumpsRaises(o, hasDefault) ==
    IF o.t \in {"null", "int", "str"} THEN FALSE
    ELSE IF o.t = "date" THEN ~hasDefault
    ELSE IF o.t = "seq" THEN \E i \in 1..Len(o.v) : DumpsRaises(o.v[i], hasDefault)
    ELSE \E i \in 1..Len(o.v) :
            \/ o.v[i].k.t \notin KeyTypes
            \/ DumpsRaises(o.v[i].val, hasDefault)

\* Newline and indentation before an item at nesting depth level; nothing
\* in compact mode (indent=None).
NewlineIndent(indent, level) ==
    IF indent = <<>> THEN "" ELSE "\n" \o Spaces(indent[1] * level)

ItemSeparator(indent, level) ==
    IF indent = <<>> THEN ", " ELSE "," \o NewlineIndent(indent, level)

\* The JSON text of o (o has no key outside KeyTypes); a date is encoded
\* as the JSON string of _default(o) = str(o).
RECURSIVE Encode(_, _, _)
Encode(o, indent, level) ==
    IF o.t = "null" THEN "null"
    ELSE IF o.t = "int" THEN ToString(o.v)
    ELSE IF o.t \in {"str", "date"} THEN "\"" \o o.v \o "\""
    ELSE IF Len(o.v) = 0 THEN (IF o.t = "seq" THEN "[]" ELSE "{}")
    ELSE LET item(i) ==
                 IF o.t = "seq" THEN Encode(o.v[i], indent, level + 1)
                 ELSE "\"" \o KeyText(o.v[i].k) \o "\": "
                          \o Encode(o.v[i].val, indent, level + 1)
             body == Join([i \in 1..Len(o.v) |-> item(i)],
                          ItemSeparator(indent, level + 1))
         IN  (IF o.t = "seq" THEN "[" ELSE "{")
                 \o NewlineIndent(indent, level + 1) \o body
                 \o NewlineIndent(indent, level)
                 \o (IF o.t = "seq" THEN "]" ELSE "}")

dumps(o, indent, hasDefault) ==
    IF DumpsRaises(o, hasDefault)
    THEN [raised |-> TRUE, text |-> ""]
    ELSE [raised |-> FALSE, text |-> Encode(o, indent, 0)]

\* ---------------------------------------------------------------- print
\* repr(o), as print shows a value nested in a list or dict.
RECURSIVE Repr(_)
Repr(o) ==
    IF o.t = "null" THEN "None"
    ELSE IF o.t = "int" THEN ToString(o.v)
    ELSE IF o.t = "str" THEN "'" \o o.v \o "'"
    ELSE IF o.t = "date" THEN "datetime.date(2020, 1, 1)"
    ELSE LET item(i) ==
                 IF o.t = "seq" THEN Repr(o.v[i])
                 ELSE Repr(o.v[i].k) \o ": " \o Repr(o.v[i].val)
         IN  (IF o.t = "seq" THEN "[" ELSE "{")
                 \o Join([i \in 1..Len(o.v) |-> item(i)], ", ")
                 \o (IF o.t = "seq" THEN "]" ELSE "}")

\* str(o), what print(o) writes before the newline.
Str(o) == IF o.t \in {"str", "date"} THEN o.v ELSE Repr(o)

\* ---------------------------------------------------------------- main
\* The indent width of -p given without a value (const=2).
PrettyConst == 2

\* The state when main(argv) starts, after parse_args: one or more inputs
\* (nargs="+"), -o absent, empty or a path, -p absent or bare, and the
\* --allow-empty flag.  Every path named in inputs holds some content; the
\* paths main is not given are never touched and are left absent.
InitArgs ==
    /\ inputs \in SeqsUpTo(Paths, MaxInputs) \ {<<>>}
    /\ output \in {<<>>, <<"">>, <<"out.json">>}
    /\ pretty \in {<<>>, <<PrettyConst>>}
    /\ allow_empty \in BOOLEAN
    /\ fs \in {f \in [Paths -> Contents] :
                  \A p \in Paths \ Range(inputs) : f[p] = Missing}

Init ==
    /\ InitArgs
    /\ data_json = NoDataJson
    /\ data = Null
    /\ pc = "load"
    /\ objs = <<>>
    /\ out_obj = Null
    /\ json_text = ""
    /\ stdout = <<>>
    /\ stderr = <<>>
    /\ outfile = <<>>
    /\ ret = <<>>
    /\ exc = ""

\* A loop that reports a path that does not exist and goes on to the next
\* input instead of returning 2.
LoadInput_skip ==
    /\ pc = "load"
    /\ Len(objs) < Len(inputs)
    /\ LET path == inputs[Len(objs) + 1]
           file == fs[path]
       IN  IF ~file.exists
           THEN /\ stderr' = Append(stderr, "Error: file not found: " \o path \o "\n")
                /\ objs' = Append(objs, Null)
                /\ UNCHANGED <<pc, ret, exc>>
           ELSE IF ~file.wellformed
           THEN /\ exc' = "YAMLError"
                /\ ret' = <<1>>
                /\ pc' = "done"
                /\ UNCHANGED <<objs, stderr>>
           ELSE /\ objs' = Append(objs, load_yaml_file(file.docs))
                /\ UNCHANGED <<pc, ret, exc, stderr>>
    /\ UNCHANGED <<inputs, output, pretty, allow_empty, fs, data_json, data,
                   out_obj, json_text, stdout, outfile>>

\* One iteration of `for inp in args.inputs`: a path that does not exist
\* ends the run with 2; text that is not YAML makes safe_load_all raise,
\* which main does not catch; otherwise the file's result is appended.
LoadInput ==
    /\ pc = "load"
    /\ Len(objs) < Len(inputs)
    /\ LET path == inputs[Len(objs) + 1]
           file == fs[path]
       IN  IF ~file.exists
           THEN /\ stderr' = Append(stderr, "Error: file not found: " \o path \o "\n")
                /\ ret' = <<2>>
                /\ pc' = "done"
                /\ UNCHANGED <<objs, exc>>
           ELSE IF ~file.wellformed
           THEN /\ exc' = "YAMLError"
                /\ ret' = <<1>>
                /\ pc' = "done"
                /\ UNCHANGED <<objs, stderr>>
           ELSE /\ objs' = Append(objs, load_yaml_file(file.docs))
                /\ UNCHANGED <<pc, ret, exc, stderr>>
    /\ UNCHANGED <<inputs, output, pretty, allow_empty, fs, data_json, data,
                   out_obj, json_text, stdout, outfile>>

\* An aggregation that emits the list objs also for a single input.
aggregate_wrapped(os) == List(os)

\* out_obj after the loop: the only element of objs, or the list itself.
aggregate(os) == IF Len(os) = 1 THEN os[1] ELSE List(os)

Aggregate ==
    /\ pc = "load"
    /\ Len(objs) = Len(inputs)
    /\ out_obj' = aggregate(objs)
    /\ pc' = "check"
    /\ UNCHANGED <<inputs, output, pretty, allow_empty, fs, data_json, data, objs,
                   json_text, stdout, stderr, outfile, ret, exc>>

\* An empty check that ignores --allow-empty.
is_empty_error_strict(o, allow) == o = Null

\* `if out_obj is None and not args.allow_empty`
is_empty_error(o, allow) == o = Null /\ ~allow

EmptyCheck ==
    /\ pc = "check"
    /\ IF is_empty_error(out_obj, allow_empty)
       THEN /\ stderr' = Append(stderr,
                   "Error: YAML produced no document (use --allow-empty to permit null output)\n")
            /\ ret' = <<3>>
            /\ pc' = "done"
       ELSE /\ pc' = "print"
            /\ UNCHANGED <<stderr, ret>>
    /\ UNCHANGED <<inputs, output, pretty, allow_empty, fs, data_json, data, objs,
                   out_obj, json_text, stdout, outfile, exc>>

\* print(out_obj)
PrintObj ==
    /\ pc = "print"
    /\ stdout' = Append(stdout, Str(out_obj) \o "\n")
    /\ pc' = "dumps"
    /\ UNCHANGED <<inputs, output, pretty, allow_empty, fs, data_json, data, objs,
                   out_obj, json_text, stderr, outfile, ret, exc>>

\* json_text: json.dumps without default, and with default=_default when
\* that raised TypeError; a TypeError of the second call is not caught.
serialize(o, indent) ==
    LET first == dumps(o, indent, FALSE)
    IN  IF first.raised THEN dumps(o, indent, TRUE) ELSE first

Serialize ==
    /\ pc = "dumps"
    /\ LET r == serialize(out_obj, pretty)
       IN  IF r.raised
           THEN /\ exc' = "TypeError"
                /\ ret' = <<1>>
                /\ pc' = "done"
                /\ UNCHANGED json_text
           ELSE /\ json_text' = r.text
                /\ pc' = "write"
                /\ UNCHANGED <<exc, ret>>
    /\ UNCHANGED <<inputs, output, pretty, allow_empty, fs, data_json, data, objs,
                   out_obj, stdout, stderr, outfile>>

\* `if args.output`: -o with a non-empty path.
to_file(out) == out # <<>> /\ out[1] # ""

WriteOut ==
    /\ pc = "write"
    /\ IF to_file(output)
       THEN /\ outfile' = <<json_text \o "\n">>
            /\ UNCHANGED stdout
       ELSE /\ stdout' = Append(stdout, json_text \o "\n")
            /\ UNCHANGED outfile
    /\ ret' = <<0>>
    /\ pc' = "done"
    /\ UNCHANGED <<inputs, output, pretty, allow_empty, fs, data_json, data, objs,
                   out_obj, json_text, stderr, exc>>

Next ==
    \/ LoadInput
    \/ Aggregate
    \/ EmptyCheck
    \/ PrintObj
    \/ Serialize
    \/ WriteOut

Spec == Init /\ [][Next]_vars

\* ---------------------------------------------------------------- __main__
\* The program run as `python yaml_to_json.py <arguments>`: the call of
\* main is commented out, and the block reads data.json and prints it.
InitCLI ==
    /\ InitArgs
    /\ data_json \in DataJsonContents
    /\ data = Null
    /\ pc = "script"
    /\ objs = <<>>
    /\ out_obj = Null
    /\ json_text = ""
    /\ stdout = <<>>
    /\ stderr = <<>>
    /\ outfile = <<>>
    /\ ret = <<>>
    /\ exc = ""

\* `with open('data.json') as f: json_str = f.read()`
ScriptOpen ==
    /\ pc = "script"
    /\ IF ~data_json.exists
       THEN /\ exc' = "FileNotFoundError"
            /\ ret' = <<1>>
            /\ pc' = "done"
       ELSE /\ pc' = "loads"
            /\ UNCHANGED <<exc, ret>>
    /\ UNCHANGED <<inputs, output, pretty, allow_empty, fs, data_json, data, objs,
                   out_obj, json_text, stdout, stderr, outfile>>

\* `data = json.loads(json_str)`
ScriptLoads ==
    /\ pc = "loads"
    /\ IF ~data_json.valid
       THEN /\ exc' = "JSONDecodeError"
            /\ ret' = <<1>>
            /\ pc' = "done"
            /\ UNCHANGED data
       ELSE /\ data' = data_json.value
            /\ pc' = "print_data"
            /\ UNCHANGED <<exc, ret>>
    /\ UNCHANGED <<inputs, output, pretty, allow_empty, fs, data_json, objs,
                   out_obj, json_text, stdout, stderr, outfile>>

\* `print(data)`, after which the interpreter exits with status 0.
ScriptPrint ==
    /\ pc = "print_data"
    /\ stdout' = Append(stdout, Str(data) \o "\n")
    /\ ret' = <<0>>
    /\ pc' = "done"
    /\ UNCHANGED <<inputs, output, pretty, allow_empty, fs, data_json, data, objs,
                   out_obj, json_text, stderr, outfile, exc>>

NextCLI ==
    \/ ScriptOpen
    \/ ScriptLoads
    \/ ScriptPrint

SpecCLI == InitCLI /\ [][NextCLI]_vars

\* ================================================================ claims
\* Every input has been loaded and main has gone past the loop.
AllLoaded == pc # "load" /\ pc # "script" /\ Len(objs) = Len(inputs)

\* r is the FileResult of a file holding the documents docs: null for no
\* document, the document itself for one, the list of all k for k > 1.
IsFileResult(r, docs) ==
    /\ Len(docs) = 0 => r = Null
    /\ Len(docs) = 1 => r = docs[1] /\ r # List(<<docs[1]>>)
    /\ Len(docs) > 1 =>
          /\ r.t = "seq"
          /\ Len(r.v) = Len(docs)
          /\ \A j \in 1..Len(docs) : r.v[j] = docs[j]

\* The texts the configured sink has received: the -o file when -o names
\* a file, standard output otherwise.
SinkTexts == IF to_file(output) THEN outfile ELSE stdout

NoOutput == stdout = <<>> /\ outfile = <<>>

\* C1: every result main has loaded is the FileResult of its file: null
\* for a file with 0 documents, the document itself for 1, and the ordered
\* list of exactly k documents for k > 1.
C1_PerFileNormalization ==
    \A i \in 1..Len(objs) : IsFileResult(objs[i], fs[inputs[i]].docs)

\* A two-document file and a one-document file have both been loaded.
C1_Witness ==
    /\ Len(objs) = 2
    /\ Len(fs[inputs[1]].docs) = 2
    /\ Len(fs[inputs[2]].docs) = 1

\* C2: with one input OutputValue is that file's FileResult, unwrapped;
\* with n > 1 inputs it is the list of exactly n FileResults, the i-th
\* being the FileResult of the i-th argument.
C2_CrossFileAggregation ==
    AllLoaded =>
        /\ Len(inputs) = 1 => IsFileResult(out_obj, fs[inputs[1]].docs)
        /\ Len(inputs) > 1 =>
              /\ out_obj.t = "seq"
              /\ Len(out_obj.v) = Len(inputs)
              /\ \A i \in 1..Len(inputs) :
                     IsFileResult(out_obj.v[i], fs[inputs[i]].docs)

\* Two different files, of one and of two documents, have been aggregated.
C2_Witness ==
    /\ AllLoaded
    /\ Len(inputs) = 2
    /\ inputs[1] # inputs[2]
    /\ Len(fs[inputs[1]].docs) = 1
    /\ Len(fs[inputs[2]].docs) = 2

\* C3: a run in which every input loads ends with 3 exactly when
\* OutputValue is null and --allow-empty is absent, and has then written
\* nothing to stdout or the output file; with a null OutputValue and
\* --allow-empty it serializes null and ends with 0.
C3_EmptyResultPolicy ==
    (pc = "done" /\ AllLoaded) =>
        /\ ret = <<3>> <=> (out_obj = Null /\ ~allow_empty)
        /\ ret = <<3>> => NoOutput
        /\ (out_obj = Null /\ allow_empty) =>
              /\ ret = <<0>>
              /\ json_text = "null"
              /\ SinkTexts # <<>>
              /\ SinkTexts[Len(SinkTexts)] = "null\n"

\* A run on one file without documents and without --allow-empty has ended.
C3_Witness ==
    /\ pc = "done"
    /\ Len(inputs) = 1
    /\ fs[inputs[1]] = YamlFile(<<>>)
    /\ ~allow_empty
    /\ ret = <<3>>

\* The i-th input is the first that does not load.
FirstFailure(i) ==
    /\ i \in 1..Len(inputs)
    /\ ~(fs[inputs[i]].exists /\ fs[inputs[i]].wellformed)
    /\ \A j \in 1..(i - 1) : fs[inputs[j]].exists /\ fs[inputs[j]].wellformed

\* C4 as stated: a run given a path that does not exist, at any position
\* and whatever the other inputs are, ends with 2 and writes no output.
C4_AnyMissingEndsWithTwo ==
    (pc = "done" /\ \E i \in 1..Len(inputs) : ~fs[inputs[i]].exists) =>
        ret = <<2>> /\ NoOutput

\* C4 amended: when the first input that does not load is a path that does
\* not exist, the run writes no output, ends with 2 and has processed no
\* later input; when it is a file that is not YAML, the run ends with the
\* parser's exception instead, also without output.
C4_FirstFailureDecides ==
    \A i \in 1..Len(inputs) :
        FirstFailure(i) =>
            /\ NoOutput
            /\ Len(objs) < i
            /\ pc = "done" =>
                  IF ~fs[inputs[i]].exists
                  THEN ret = <<2>> /\ exc = ""
                  ELSE ret # <<2>> /\ exc = "YAMLError"

\* A run whose second path does not exist, after an empty file, has ended.
C4_Witness ==
    /\ pc = "done"
    /\ Len(inputs) = 2
    /\ fs[inputs[1]] = YamlFile(<<>>)
    /\ ~fs[inputs[2]].exists
    /\ ret = <<2>>

\* C5: a run that ends in a failure has written nothing to the configured
\* sink.
C5_NoPartialOutput ==
    (pc = "done" /\ ret # <<0>>) => SinkTexts = <<>>

\* C6: after a successful run the configured sink holds the JSON text of
\* OutputValue with one trailing newline, and nothing else.
C6_SinkHoldsOnlyJson ==
    (pc = "done" /\ ret = <<0>>) => SinkTexts = <<json_text \o "\n">>

\* C7: when -o names a file standard output receives nothing, and without
\* -o no file is written.
C7_OneTargetPerRun ==
    /\ to_file(output) => stdout = <<>>
    /\ output = <<>> => outfile = <<>>

\* o holds a value json cannot represent natively (here a date), as the
\* value itself, a list element, a mapping value or a mapping key.
RECURSIVE HasNonNative(_)
HasNonNative(o) ==
    IF o.t = "date" THEN TRUE
    ELSE IF o.t = "seq" THEN \E i \in 1..Len(o.v) : HasNonNative(o.v[i])
    ELSE IF o.t = "map"
    THEN \E i \in 1..Len(o.v) : HasNonNative(o.v[i].k) \/ HasNonNative(o.v[i].val)
    ELSE FALSE

\* C8: a run whose OutputValue holds a value that is not natively
\* JSON-representable, wherever it occurs, writes its output and ends
\* with 0.
C8_FallbackNeverAborts ==
    (pc = "done" /\ AllLoaded /\ HasNonNative(out_obj)) =>
        ret = <<0>> /\ SinkTexts # <<>>

\* C9: the program run from the command line ends with 2 when an input
\* path does not exist before any other failure, with 3 when every input
\* loads to a null result without --allow-empty, and has then run the
\* pipeline on its inputs.
C9_CommandLineRunsPipeline ==
    pc = "done" =>
        /\ (\E i \in 1..Len(inputs) : FirstFailure(i) /\ ~fs[inputs[i]].exists)
              => ret = <<2>>
        /\ (/\ \A i \in 1..Len(inputs) : fs[inputs[i]].exists /\ fs[inputs[i]].wellformed
            /\ Len(inputs) = 1
            /\ Len(fs[inputs[1]].docs) = 0
            /\ ~allow_empty)
              => ret = <<3>>
        /\ (\A i \in 1..Len(inputs) : fs[inputs[i]].exists /\ fs[inputs[i]].wellformed)
              => Len(objs) = Len(inputs)

\* C10: a run on a single file that holds exactly one document never ends
\* with 3.
C10_OneDocumentIsNotEmpty ==
    (/\ pc = "done"
     /\ Len(inputs) = 1
     /\ fs[inputs[1]].wellformed
     /\ Len(fs[inputs[1]].docs) = 1)
        => ret # <<3>>

====
